---- MODULE Spec2Model ----
(***************************************************************************)
(* Model of sdk/program/src/vote_group_gen.rs: VoteGroupGenerator.         *)
(*                                                                         *)
(* A Pubkey is modelled by a natural number (the keys are opaque and only  *)
(* compared for equality).  A u64 is modelled by its four 16-bit limbs,    *)
(* least significant first, because the model checker's integers are       *)
(* narrower than 64 bits.  A Hash is its sequence of 32 bytes.             *)
(***************************************************************************)
EXTENDS Integers, Sequences, FiniteSets, TLC

VARIABLES hm, size, built, vgg, built_from, query, result

vars == <<hm, size, built, vgg, built_from, query, result>>

-----------------------------------------------------------------------------
(* Bounds of the model *)

\* Pubkeys are 0 .. MaxId
MaxId == 3

\* group sizes 0 .. MaxGroupSize are passed to new()
MaxGroupSize == 4

\* seeds 0 .. MaxSeed (and u64::MAX) are passed to in_group_for_seed
MaxSeed == 3

\* maps with more keys than this are iterated in rotations of one order only
MaxPermuted == 5

\* the large maps hold the keys 0 .. n, BigMin <= n <= BigMax
BigMin == 53

BigMax == 55

\* seeds 0 .. MaxBigSeed are used against the large maps
MaxBigSeed == 14

\* rotations 0 .. MaxRot of the ascending order are iterated for large maps
MaxRot == 1

-----------------------------------------------------------------------------
(* Program constants *)

\* the Pubkey that SAFECOIN_NEVER_VOTER spells
NeverVoterKey == 0

\* Pubkey::to_string: the base58 text of the key (injective)
to_string(key) == <<"base58", key>>

SAFECOIN_NEVER_VOTER == <<"base58", NeverVoterKey>>

\* the table of shift distances new() walks
Table ==
    <<2, 3, 5, 7, 11, 13, 17, 23, 29, 31, 37, 41, 43, 47, 51, 53, 57, 59, 61,
      67, 71, 73, 79, 83, 87, 89, 97, 101, 103>>

-----------------------------------------------------------------------------
(* u64 arithmetic on 16-bit limbs, least significant limb first *)

Limb == 65536

U64Zero == <<0, 0, 0, 0>>

U64Max == <<65535, 65535, 65535, 65535>>

\* the u64 of a small natural number
U64Of(n) == <<n, 0, 0, 0>>

\* v % n for a u64 v and a divisor 0 < n (Horner's rule over the limbs)
U64Mod(v, n) ==
    LET r4 == v[4] % n
        r3 == (r4 * Limb + v[3]) % n
        r2 == (r3 * Limb + v[2]) % n
    IN  (r2 * Limb + v[1]) % n

RECURSIVE Xor16(_, _)
\* bitwise exclusive or of two limbs
Xor16(a, b) ==
    IF a = 0 THEN b
    ELSE IF b = 0 THEN a
    ELSE (((a % 2) + (b % 2)) % 2) + 2 * Xor16(a \div 2, b \div 2)

\* val ^ valx on u64
U64Xor(a, b) == [i \in 1..4 |-> Xor16(a[i], b[i])]

\* the 8-byte array read most significant byte first
from_be_bytes(b) == [i \in 1..4 |-> b[10 - 2 * i] + 256 * b[9 - 2 * i]]

\* u64::from_le_bytes of an 8-byte array
from_le_bytes(b) == [i \in 1..4 |-> b[2 * i - 1] + 256 * b[2 * i]]

-----------------------------------------------------------------------------
(* VoteGroupGenerator::new *)

\* the distances kept when the divisor test is left out
Distances_any_smaller(len) ==
    <<1>> \o SelectSeq(Table, LAMBDA val : len > val)

\* the distances new() keeps for a voter list of length len
Distances(len) ==
    <<1>> \o SelectSeq(Table, LAMBDA val : (len > val) /\ ((len % val) # 0))

\* every key copied, the never-voter included
Voters_unfiltered(collected) == collected

\* the keys new() copies into temp, in iteration order
Voters(collected) ==
    SelectSeq(collected, LAMBDA key : to_string(key) # SAFECOIN_NEVER_VOTER)

\* new(map, size), collected being map.into_iter().collect()
new(collected, sz) ==
    LET temp == Voters(collected)
    IN  [possible_voters |-> temp,
         all_distance |-> Distances(Len(temp)),
         group_size |-> sz]

\* new_dummy(): new() on an empty map with size 1
new_dummy == new(<<>>, 1)

-----------------------------------------------------------------------------
(* Iteration order of a HashMap *)

\* the keys of S in ascending order
Ascending(S) ==
    [i \in 1..Cardinality(S) |->
        CHOOSE x \in S : Cardinality({y \in S : y <= x}) = i]

\* s rotated left by r places
Rotate(s, r) ==
    [i \in 1..Len(s) |-> s[(((i - 1) + r) % Len(s)) + 1]]

\* The orders in which map.into_iter() may yield the keys of S: the order is
\* that of the buckets under the map's randomly keyed hasher, so any order
\* can occur.  Every order is enumerated for a small map; for a large one
\* only some rotations of the ascending order.
IterOrders(S) ==
    IF Cardinality(S) <= MaxPermuted
    THEN {f \in [1..Cardinality(S) -> S] :
            \A i, j \in 1..Cardinality(S) : i # j => f[i] # f[j]}
    ELSE {Rotate(Ascending(S), r) : r \in 0..MaxRot}

-----------------------------------------------------------------------------
(* VoteGroupGenerator::ring_shift, in_group_for_seed, in_group_for_hash *)

\* the shift without the wrap at the end of the ring
ring_shift_no_wrap(self, a, b) == a + b

ring_shift(self, a, b) ==
    LET temp == a + b
    IN  temp % Len(self.possible_voters)

\* what a call returns: ret is the boolean returned (FALSE when it panicked),
\* reads the indices of possible_voters compared with test_key in order,
\* choose_dist the index into all_distance (-1 when none was taken)
Outcome(ret, panic, reads, choose_dist) ==
    [ret |-> ret, panic |-> panic, reads |-> reads, choose_dist |-> choose_dist]

RECURSIVE RingLoop_skip_last(_, _, _, _, _, _, _)
\* the loop ending one iteration early
RingLoop_skip_last(self, loc, dist, n, test_key, reads, cd) ==
    IF n <= 1 THEN Outcome(FALSE, FALSE, reads, cd)
    ELSE LET next == (loc + dist) % Len(self.possible_voters)
         IN  IF test_key = self.possible_voters[next + 1]
             THEN Outcome(TRUE, FALSE, Append(reads, next), cd)
             ELSE RingLoop_skip_last(self, next, dist, n - 1, test_key,
                                     Append(reads, next), cd)

RECURSIVE RingLoop_one_more(_, _, _, _, _, _, _)
\* the loop running one iteration more
RingLoop_one_more(self, loc, dist, n, test_key, reads, cd) ==
    LET next == (loc + dist) % Len(self.possible_voters)
    IN  IF test_key = self.possible_voters[next + 1]
        THEN Outcome(TRUE, FALSE, Append(reads, next), cd)
        ELSE IF n = 0
             THEN Outcome(FALSE, FALSE, Append(reads, next), cd)
             ELSE RingLoop_one_more(self, next, dist, n - 1, test_key,
                                    Append(reads, next), cd)

RECURSIVE RingLoop(_, _, _, _, _, _, _)
\* the for loop of in_group_for_seed with n iterations left
RingLoop(self, loc, dist, n, test_key, reads, cd) ==
    IF n = 0 THEN Outcome(FALSE, FALSE, reads, cd)
    ELSE LET next == ring_shift(self, loc, dist)
         IN  IF next >= Len(self.possible_voters)
             THEN Outcome(FALSE, TRUE, reads, cd)
             ELSE IF test_key = self.possible_voters[next + 1]
                  THEN Outcome(TRUE, FALSE, Append(reads, next), cd)
                  ELSE RingLoop(self, next, dist, n - 1, test_key,
                                Append(reads, next), cd)

\* the query with the loop entered from group_size 1 and run group_size times
in_group_for_seed_from_one(self, seed, test_key) ==
    LET voters_len == Len(self.possible_voters)
    IN  IF voters_len = 0
        THEN Outcome(FALSE, TRUE, <<>>, -1)
        ELSE LET loc == U64Mod(seed, voters_len)
                 first_key == self.possible_voters[loc + 1]
             IN  IF test_key = first_key
                 THEN Outcome(TRUE, FALSE, <<loc>>, -1)
                 ELSE IF self.group_size > 0
                      THEN LET choose_dist ==
                                   U64Mod(seed, Len(self.all_distance))
                               dist == self.all_distance[choose_dist + 1]
                           IN  RingLoop(self, loc, dist, self.group_size,
                                        test_key, <<loc>>, choose_dist)
                      ELSE Outcome(FALSE, FALSE, <<loc>>, -1)

in_group_for_seed(self, seed, test_key) ==
    LET voters_len == Len(self.possible_voters)
    IN  IF voters_len = 0
        THEN Outcome(FALSE, TRUE, <<>>, -1)
        ELSE LET loc == U64Mod(seed, voters_len)
                 first_key == self.possible_voters[loc + 1]
             IN  IF test_key = first_key
                 THEN Outcome(TRUE, FALSE, <<loc>>, -1)
                 ELSE IF self.group_size > 1
                      THEN IF Len(self.all_distance) = 0
                           THEN Outcome(FALSE, TRUE, <<loc>>, -1)
                           ELSE LET choose_dist ==
                                        U64Mod(seed, Len(self.all_distance))
                                    dist == self.all_distance[choose_dist + 1]
                                IN  RingLoop(self, loc, dist,
                                             self.group_size - 1, test_key,
                                             <<loc>>, choose_dist)
                      ELSE Outcome(FALSE, FALSE, <<loc>>, -1)

RECURSIVE Hash2Loop(_, _, _)
\* the while loop of hash2u64
Hash2Loop(ary, idx, val) ==
    IF idx < Len(ary)
    THEN LET temp == SubSeq(ary, idx + 1, idx + 8)
             valx == from_le_bytes(temp)
         IN  Hash2Loop(ary, idx + 8, U64Xor(val, valx))
    ELSE val

\* hash2u64: panic is TRUE for "bad hash"
hash2u64(hash_val) ==
    LET ary == hash_val
        max == Len(ary)
    IN  IF (max % 8) # 0
        THEN [panic |-> TRUE, val |-> U64Zero]
        ELSE [panic |-> FALSE, val |-> Hash2Loop(ary, 0, U64Zero)]

in_group_for_hash(self, hash, test_key) ==
    LET seed == hash2u64(hash)
    IN  IF seed.panic
        THEN Outcome(FALSE, TRUE, <<>>, -1)
        ELSE in_group_for_seed(self, seed.val, test_key)

-----------------------------------------------------------------------------
(* State *)

Nodes == {1, 2}

Ids == 0..MaxId

\* the maps, sizes and seeds of the small configuration
Maps == SUBSET Ids

Sizes == 0..MaxGroupSize

Seeds == {U64Of(n) : n \in 0..MaxSeed} \cup {U64Max}

\* the maps, sizes, seeds and keys of the large configuration
BigMaps == {0..n : n \in BigMin..BigMax}

BigSizes == {1, 18, 19, 25}

BigSeeds == {U64Of(n) : n \in 0..MaxBigSeed}

BigKeys == {0, 1, 2, BigMax + 1}

\* the 8-byte chunks digests are made of
Chunks ==
    {<<1, 0, 0, 0, 0, 0, 0, 0>>,
     <<2, 1, 0, 255, 0, 0, 0, 4>>}

\* the chunks the first half of a digest is made of
LeadChunks == Chunks \cup {<<255, 255, 255, 255, 255, 255, 255, 255>>}

Digests ==
    {a \o b \o c \o d : a \in LeadChunks, b \in LeadChunks,
                        c \in Chunks, d \in Chunks}

\* the keys asked about with a digest
HashKeys == {1, 2}

\* the maps digests are tried against: the keys 1 .. n
HashMaps == {1..n : n \in 1..MaxId}

\* a selector slot no constructor has filled yet
Unbuilt == [possible_voters |-> <<>>, all_distance |-> <<>>, group_size |-> 0]

NoSource == [map |-> {}, size |-> 0]

NoResult == Outcome(FALSE, FALSE, <<>>, -1)

NoQuery == [kind |-> "none", hash |-> <<>>, seed |-> U64Zero, key |-> 0]

InitRest ==
    /\ built = {}
    /\ vgg = [i \in Nodes |-> Unbuilt]
    /\ built_from = [i \in Nodes |-> NoSource]
    /\ query = NoQuery
    /\ result = [i \in Nodes |-> NoResult]

Init ==
    /\ hm \in Maps
    /\ size \in Sizes
    /\ InitRest

InitHash ==
    /\ hm \in HashMaps
    /\ size \in Sizes
    /\ InitRest

InitBig ==
    /\ hm \in BigMaps
    /\ size \in BigSizes
    /\ InitRest

\* builder i constructs its selector from the map hm and the size; the
\* selectors are constructed before the first of them is queried
New(i) ==
    /\ i \notin built
    /\ query.kind = "none"
    /\ \E collected \in IterOrders(hm) :
           vgg' = [vgg EXCEPT ![i] = new(collected, size)]
    /\ built' = built \cup {i}
    /\ built_from' = [built_from EXCEPT ![i] = [map |-> hm, size |-> size]]
    /\ UNCHANGED <<hm, size, query, result>>

\* builder i constructs the dummy selector
NewDummy(i) ==
    /\ i \notin built
    /\ query.kind = "none"
    /\ vgg' = [vgg EXCEPT ![i] = new_dummy]
    /\ built' = built \cup {i}
    /\ built_from' = [built_from EXCEPT ![i] = [map |-> {}, size |-> 1]]
    /\ UNCHANGED <<hm, size, query, result>>

\* every constructed selector is asked in_group_for_seed(seed, test_key)
InGroupForSeed(seed, test_key) ==
    /\ built # {}
    /\ query' = [kind |-> "seed", hash |-> <<>>, seed |-> seed, key |-> test_key]
    /\ result' = [i \in Nodes |->
                    IF i \in built THEN in_group_for_seed(vgg[i], seed, test_key)
                    ELSE NoResult]
    /\ UNCHANGED <<hm, size, built, vgg, built_from>>

\* every constructed selector is asked in_group_for_hash(hash, test_key)
InGroupForHash(hash, test_key) ==
    /\ built # {}
    /\ query' = [kind |-> "hash", hash |-> hash, seed |-> U64Zero, key |-> test_key]
    /\ result' = [i \in Nodes |->
                    IF i \in built THEN in_group_for_hash(vgg[i], hash, test_key)
                    ELSE NoResult]
    /\ UNCHANGED <<hm, size, built, vgg, built_from>>

Next ==
    \/ \E i \in Nodes : New(i)
    \/ \E i \in Nodes : NewDummy(i)
    \/ \E seed \in Seeds, test_key \in Ids : InGroupForSeed(seed, test_key)

Spec == Init /\ [][Next]_vars

NextHash ==
    \/ New(1)
    \/ \E hash \in Digests, test_key \in HashKeys : InGroupForHash(hash, test_key)

SpecHash == InitHash /\ [][NextHash]_vars

NextBig ==
    \/ New(1)
    \/ NewDummy(2)
    \/ \E seed \in BigSeeds, test_key \in BigKeys : InGroupForSeed(seed, test_key)

SpecBig == InitBig /\ [][NextBig]_vars

-----------------------------------------------------------------------------
(* Properties *)

\* selector i answered the last query
Answered(i) == i \in built /\ result[i] # NoResult

VotersOf(i) == vgg[i].possible_voters

\* the keys selector i was built from, without the never-voter
Eligible(i) == built_from[i].map \ {NeverVoterKey}

\* C1: a query against a selector whose voter list is empty returns false
\* and does not fault, whatever the seed and the key.
C1_EmptyReturnsFalse ==
    \A i \in Nodes :
        (Answered(i) /\ VotersOf(i) = <<>>)
            => (~result[i].panic /\ result[i].ret = FALSE)

\* C2: two selectors built from the same map and the same group size give
\* the same answer to the same query, whatever order each build iterated
\* the map in.
C2_Determinism ==
    \A i, j \in Nodes :
        (Answered(i) /\ Answered(j) /\ built_from[i] = built_from[j])
            => (result[i].ret = result[j].ret
                /\ result[i].panic = result[j].panic)

\* the keys selector i reports as members for the given seed
Committee(i, seed) ==
    {k \in built_from[i].map : in_group_for_seed(vgg[i], seed, k).ret}

\* C3: with 1 <= group_size <= voters.len(), the keys for which the query
\* of a seed returns true are exactly group_size distinct keys.
C3_FixedCommitteeSize ==
    \A i \in Nodes :
        (/\ Answered(i)
         /\ query.kind = "seed"
         /\ 1 <= vgg[i].group_size
         /\ vgg[i].group_size <= Len(VotersOf(i)))
            => Cardinality(Committee(i, query.seed)) = vgg[i].group_size

\* C4: a selector with a non-empty voter list and group_size >= voters.len()
\* returns true at seed 0 for every key of its map but the never-voter.
C4_FullCoverageSeedZero ==
    \A i \in Nodes :
        (/\ Answered(i)
         /\ query.kind = "seed"
         /\ query.seed = U64Zero
         /\ VotersOf(i) # <<>>
         /\ vgg[i].group_size >= Len(VotersOf(i))
         /\ query.key \in Eligible(i))
            => (result[i].ret = TRUE /\ ~result[i].panic)

\* C4 witness: the key is found at the last of three positions, the loop
\* having run group_size - 1 times
C4_Witness ==
    \E i \in Nodes :
        /\ Answered(i)
        /\ query.kind = "seed"
        /\ query.seed = U64Zero
        /\ Len(VotersOf(i)) = 3
        /\ vgg[i].group_size = 3
        /\ query.key \in Eligible(i)
        /\ result[i].ret = TRUE
        /\ result[i].reads = <<0, 1, 2>>

\* C5: a query returns true only for a key that is in the map the selector
\* was built from and is not the never-voter.
C5_MembershipSound ==
    \A i \in Nodes :
        (Answered(i) /\ VotersOf(i) # <<>> /\ result[i].ret)
            => (query.key \in built_from[i].map /\ query.key # NeverVoterKey)

\* C5 witness: the never-voter is in the map, every position of the ring is
\* compared with it and the answer is false
C5_Witness ==
    \E i \in Nodes :
        /\ Answered(i)
        /\ NeverVoterKey \in built_from[i].map
        /\ query.key = NeverVoterKey
        /\ Len(VotersOf(i)) >= 2
        /\ Len(result[i].reads) >= Len(VotersOf(i))
        /\ result[i].ret = FALSE

\* C6: one query compares the key with at most group_size positions of
\* the voter list, for every group size, 0 included.
C6_BoundedWork ==
    \A i \in Nodes :
        (Answered(i) /\ VotersOf(i) # <<>>)
            => Len(result[i].reads) <= vgg[i].group_size

\* C6 as amended: one query compares the key with at most group_size
\* positions, and with exactly one position when group_size is 0.
C6_BoundedWorkAmended ==
    \A i \in Nodes :
        (Answered(i) /\ VotersOf(i) # <<>>)
            => /\ vgg[i].group_size >= 1
                    => Len(result[i].reads) <= vgg[i].group_size
               /\ vgg[i].group_size = 0 => Len(result[i].reads) = 1

\* C6 witness: group_size exceeds the voter list and all group_size
\* comparisons are made
C6_Witness ==
    \E i \in Nodes :
        /\ Answered(i)
        /\ VotersOf(i) # <<>>
        /\ vgg[i].group_size > Len(VotersOf(i))
        /\ Len(result[i].reads) = vgg[i].group_size
        /\ result[i].ret = FALSE

\* bit k of n
Bit(n, k) == (n \div (2 ^ k)) % 2

\* byte j of the four chunks of a digest combined by exclusive or, the
\* chunks taken last to first
FoldByte(h, j) ==
    LET parity(k) == (Bit(h[24 + j], k) + Bit(h[16 + j], k)
                      + Bit(h[8 + j], k) + Bit(h[j], k)) % 2
    IN  parity(0) + 2 * parity(1) + 4 * parity(2) + 8 * parity(3)
        + 16 * parity(4) + 32 * parity(5) + 64 * parity(6) + 128 * parity(7)

\* the folded digest as a little-endian u64
FoldSeed(h) == [i \in 1..4 |-> FoldByte(h, 2 * i - 1) + 256 * FoldByte(h, 2 * i)]

\* C7: in_group_for_hash(digest, key) is in_group_for_seed(seed, key) for
\* the seed that is the exclusive or of the four 8-byte little-endian
\* chunks of the digest, in whatever order they are combined; the seed is
\* a 64-bit value.
C7_HashIsSeedOfFold ==
    \A i \in Nodes :
        (Answered(i) /\ query.kind = "hash")
            => /\ result[i] =
                    in_group_for_seed(vgg[i], FoldSeed(query.hash), query.key)
               /\ ~hash2u64(query.hash).panic
               /\ \A l \in 1..4 : hash2u64(query.hash).val[l] \in 0..(Limb - 1)

\* C7 witness: a digest whose seed has bits above the low 16 and whose
\* query finds the key by stepping round the ring
C7_Witness ==
    \E i \in Nodes :
        /\ Answered(i)
        /\ query.kind = "hash"
        /\ FoldSeed(query.hash)[4] # 0
        /\ FoldSeed(query.hash)[1] # 0
        /\ Len(VotersOf(i)) >= 2
        /\ Len(result[i].reads) >= 2
        /\ result[i].ret = TRUE

\* C8: with a non-empty voter list, group_size 0 and group_size 1 give the
\* same answer to every query: true exactly when the key is
\* voters[seed mod voters.len()].
C8_SizeZeroLikeOne ==
    \A i \in Nodes :
        (/\ Answered(i)
         /\ query.kind = "seed"
         /\ VotersOf(i) # <<>>
         /\ vgg[i].group_size <= 1)
            => /\ ~result[i].panic
               /\ result[i].ret =
                    (query.key =
                        VotersOf(i)[U64Mod(query.seed, Len(VotersOf(i))) + 1])
               /\ result[i] =
                    in_group_for_seed(
                        [vgg[i] EXCEPT !.group_size = 1 - vgg[i].group_size],
                        query.seed, query.key)

\* C8 witness: group_size is 1, the key is a voter but not the one the seed
\* points at, and the answer is false
C8_Witness ==
    \E i \in Nodes :
        /\ Answered(i)
        /\ query.kind = "seed"
        /\ vgg[i].group_size = 1
        /\ Len(VotersOf(i)) >= 2
        /\ \E k \in 1..Len(VotersOf(i)) : VotersOf(i)[k] = query.key
        /\ result[i].ret = FALSE

\* the table of distances as the claim lists it
C9_Table ==
    <<2, 3, 5, 7, 11, 13, 17, 23, 29, 31, 37, 41, 43, 47, 51, 53, 57, 59, 61,
      67, 71, 73, 79, 83, 87, 89, 97, 101, 103>>

C10_OversizeTerminates ==
    \A i \in Nodes :
        (/\ Answered(i)
         /\ VotersOf(i) # <<>>
         /\ vgg[i].group_size > Len(VotersOf(i)))
            => /\ ~result[i].panic
               /\ Len(result[i].reads) >= 1
               /\ Len(result[i].reads) - 1 <= vgg[i].group_size - 1
               /\ \A k \in 1..Len(result[i].reads) :
                      result[i].reads[k] \in 0..(Len(VotersOf(i)) - 1)
               /\ \/ result[i].choose_dist = -1
                  \/ result[i].choose_dist \in
                         0..(Len(vgg[i].all_distance) - 1)

\* C10 witness: every step is taken, some index is read twice and the
\* distance is not the first of the list
C10_Witness ==
    \E i \in Nodes :
        /\ Answered(i)
        /\ vgg[i].group_size > Len(VotersOf(i))
        /\ Len(VotersOf(i)) >= 3
        /\ Len(result[i].reads) = vgg[i].group_size
        /\ result[i].choose_dist >= 1
        /\ result[i].ret = FALSE

====
